---- MODULE Spec2Model ----
(***************************************************************************)
(* A model of gcovr's coverage core (gcovr/data.py): the CoverageData      *)
(* record and its merge, the gcov report parser process_gcov_data, and the *)
(* driver process_datafile / process_files.                                *)
(*                                                                         *)
(* A report line is a record of what the parser reads off the text:        *)
(*   nseg    number of pieces of line.split(":", 2)                        *)
(*   tmp     kind of segments[0].strip(): "-", "#", "=", "digit", "branch",*)
(*           "call", "function", "f", "other", "empty"                     *)
(*   countok, count   whether int(segments[0].strip()) parses, its value   *)
(*   numok, num       whether int(segments[1].strip()) parses, its value   *)
(*   seg2    segments[2], a sequence of one-character strings              *)
(*   excl    exclude_line_pattern.findall(line): <<header, flag>> pairs    *)
(*   bidxok, bidx     int(line.split()[1]) of a branch line                *)
(*   bcntok, bcnt     int(line.split()[3]) of a branch line                *)
(* A text the program builds (uncovered_str) is a sequence of              *)
(* one-character strings.                                                  *)
(***************************************************************************)
EXTENDS Integers, Sequences, FiniteSets, TLC

VARIABLES covdata, gcov, proc, fold, printed

vars == <<covdata, gcov, proc, fold, printed>>

(***************************************************************************)
(* Bounds of the model.                                                    *)
(***************************************************************************)
MaxReports == 3
MaxInput == 4
NumFold == 2
MaxDepth == 2
NumArtifacts == 2

(***************************************************************************)
(* Python dict and str helpers.                                            *)
(***************************************************************************)
EmptyMap == [x \in {} |-> 0]

Get(d, k, default) == IF k \in DOMAIN d THEN d[k] ELSE default

Put(d, k, v) == [x \in (DOMAIN d) \cup {k} |-> IF x = k THEN v ELSE d[x]]

\* the interpreters the program runs under
Interpreters == {"python2", "python3"}

\* characters written as themselves: vertical tab, the information
\* separators U+001C..U+001F, next line U+0085, no-break space U+00A0 and
\* ogham space mark U+1680
VT == ""

FS == ""

GS == ""

RS == ""

US == ""

NEL == ""

NBSP == " "

OGHAM == " "

\* characters written by their code point: the spaces U+2000..U+200A, line
\* separator, paragraph separator, narrow no-break space, medium
\* mathematical space and ideographic space
WideSpaces ==
  {"U+2000", "U+2001", "U+2002", "U+2003", "U+2004", "U+2005", "U+2006",
   "U+2007", "U+2008", "U+2009", "U+200A", "U+2028", "U+2029", "U+202F",
   "U+205F", "U+3000"}

\* the characters str.strip() removes.  Under Python 2 the text is a byte
\* string and they are the six of string.whitespace; under Python 3 it is a
\* str and they are the 29 characters with str.isspace()
Whitespace(python) ==
  IF python = "python2"
    THEN {" ", "\t", "\n", "\r", "\f", VT}
    ELSE {" ", "\t", "\n", "\r", "\f", VT, FS, GS, RS, US, NEL, NBSP, OGHAM}
           \cup WideSpaces

RECURSIVE LStrip(_, _)
LStrip(s, python) ==
  IF s # <<>> /\ Head(s) \in Whitespace(python)
    THEN LStrip(Tail(s), python)
    ELSE s

RECURSIVE RStrip(_, _)
RStrip(s, python) ==
  IF s # <<>> /\ s[Len(s)] \in Whitespace(python)
    THEN RStrip(SubSeq(s, 1, Len(s) - 1), python)
    ELSE s

Strip(s, python) == RStrip(LStrip(s, python), python)

StartsWith(s, prefix) ==
  Len(s) >= Len(prefix) /\ SubSeq(s, 1, Len(prefix)) = prefix

(***************************************************************************)
(* class CoverageData                                                      *)
(***************************************************************************)
\* a slip: all_lines = copy.deepcopy(uncovered) without the two updates
CoverageData_all_lines_uncovered(fname, uncovered, uncovered_exceptional, covered, branches, noncode) ==
  [fname |-> fname,
   uncovered |-> uncovered,
   uncovered_exceptional |-> uncovered_exceptional,
   covered |-> covered,
   noncode |-> noncode,
   all_lines |-> uncovered,
   branches |-> branches]

CoverageData(fname, uncovered, uncovered_exceptional, covered, branches, noncode) ==
  [fname |-> fname,
   uncovered |-> uncovered,
   uncovered_exceptional |-> uncovered_exceptional,
   covered |-> covered,
   noncode |-> noncode,
   all_lines |-> uncovered \cup uncovered_exceptional \cup DOMAIN covered,
   branches |-> branches]

\* a slip: self.covered[k] = covered[k]
UpdateCovered_overwrite(self_covered, covered) ==
  [k \in (DOMAIN self_covered) \cup (DOMAIN covered) |->
     IF k \in DOMAIN covered THEN covered[k] ELSE self_covered[k]]

\* the covered mapping after "for k in covered.keys()" of update
UpdateCovered(self_covered, covered) ==
  [k \in (DOMAIN self_covered) \cup (DOMAIN covered) |->
     IF k \in DOMAIN covered
       THEN Get(self_covered, k, 0) + covered[k]
       ELSE self_covered[k]]

\* the branches table after "for k in branches.keys()" of update: setdefault
\* runs inside the inner loop, so a line whose table is empty adds no key
UpdateBranches(self_branches, branches) ==
  LET touched == {k \in DOMAIN branches : DOMAIN branches[k] # {}}
  IN [k \in (DOMAIN self_branches) \cup touched |->
        IF k \in touched
          THEN LET d == Get(self_branches, k, EmptyMap)
               IN [b \in (DOMAIN d) \cup (DOMAIN branches[k]) |->
                     IF b \in DOMAIN branches[k]
                       THEN Get(d, b, 0) + branches[k][b]
                       ELSE d[b]]
          ELSE self_branches[k]]

\* a slip: the two difference_update calls left out
update_keeps_uncovered(self, uncovered, uncovered_exceptional, covered, branches, noncode) ==
  [fname |-> self.fname,
   all_lines |-> self.all_lines \cup uncovered \cup uncovered_exceptional
                   \cup DOMAIN covered,
   uncovered |-> self.uncovered \cup uncovered,
   uncovered_exceptional |->
     self.uncovered_exceptional \cup uncovered_exceptional,
   noncode |-> self.noncode \cap noncode,
   covered |-> UpdateCovered(self.covered, covered),
   branches |-> UpdateBranches(self.branches, branches)]

\* a slip: self.noncode.update(noncode), a union
update_noncode_union(self, uncovered, uncovered_exceptional, covered, branches, noncode) ==
  LET cov == UpdateCovered(self.covered, covered)
  IN [fname |-> self.fname,
      all_lines |-> self.all_lines \cup uncovered \cup uncovered_exceptional
                      \cup DOMAIN covered,
      uncovered |-> (self.uncovered \cup uncovered) \ DOMAIN cov,
      uncovered_exceptional |->
        (self.uncovered_exceptional \cup uncovered_exceptional) \ DOMAIN cov,
      noncode |-> self.noncode \cup noncode,
      covered |-> cov,
      branches |-> UpdateBranches(self.branches, branches)]

update(self, uncovered, uncovered_exceptional, covered, branches, noncode) ==
  LET cov == UpdateCovered(self.covered, covered)
  IN [fname |-> self.fname,
      all_lines |-> self.all_lines \cup uncovered \cup uncovered_exceptional
                      \cup DOMAIN covered,
      uncovered |-> (self.uncovered \cup uncovered) \ DOMAIN cov,
      uncovered_exceptional |->
        (self.uncovered_exceptional \cup uncovered_exceptional) \ DOMAIN cov,
      noncode |-> self.noncode \cap noncode,
      covered |-> cov,
      branches |-> UpdateBranches(self.branches, branches)]

(***************************************************************************)
(* process_gcov_data: the locals of one call and the per-line loop body.   *)
(***************************************************************************)
Sentinel == [kind |-> "line"]

Region(header, line) == [kind |-> "region", header |-> header, line |-> line]

\* the locals set up before the loop "for line in INPUT"
ParserLocals ==
  [excluding |-> <<>>,
   noncode |-> {},
   uncovered |-> {},
   uncovered_exceptional |-> {},
   covered |-> EmptyMap,
   branches |-> EmptyMap,
   lineno |-> 0,
   last_code_line |-> <<>>,
   last_code_lineno |-> 0,
   last_code_line_excluded |-> FALSE,
   stderr |-> <<>>,
   raised |-> "none"]

\* a slip: a STOP of another family warns and leaves the region open
ScanMarker_keeps_mismatched(st, header, flag, lineno) ==
  LET n == Len(st.excluding)
  IN CASE flag = "START" ->
            [st EXCEPT !.excluding = Append(@, Region(header, lineno))]
       [] flag = "STOP" /\ n > 0 ->
            LET top == st.excluding[n]
            IN IF top.header # header
                 THEN [st EXCEPT !.stderr = Append(@,
                                   [kind |-> "terminated_by",
                                    start |-> top.header,
                                    start_line |-> top.line,
                                    stop |-> header,
                                    stop_line |-> lineno])]
                 ELSE [st EXCEPT !.excluding = SubSeq(@, 1, n - 1)]
       [] flag = "STOP" /\ n = 0 ->
            [st EXCEPT !.stderr = Append(@,
               [kind |-> "stop_without_start",
                stop |-> header, stop_line |-> lineno])]
       [] OTHER -> [st EXCEPT !.excl_line = TRUE]

\* a slip: a STOP without a START opens a region instead of warning
ScanMarker_unmatched_stop_opens(st, header, flag, lineno) ==
  LET n == Len(st.excluding)
  IN CASE flag = "START" ->
            [st EXCEPT !.excluding = Append(@, Region(header, lineno))]
       [] flag = "STOP" /\ n > 0 ->
            LET top == st.excluding[n]
                popped == SubSeq(st.excluding, 1, n - 1)
            IN IF top.header # header
                 THEN [st EXCEPT !.excluding = popped,
                                 !.stderr = Append(@,
                                   [kind |-> "terminated_by",
                                    start |-> top.header,
                                    start_line |-> top.line,
                                    stop |-> header,
                                    stop_line |-> lineno])]
                 ELSE [st EXCEPT !.excluding = popped]
       [] flag = "STOP" /\ n = 0 ->
            [st EXCEPT !.excluding = Append(@, Region(header, lineno))]
       [] OTHER -> [st EXCEPT !.excl_line = TRUE]

\* a slip: every LINE marker pushes its own sentinel as it is met
ScanMarker_pushes_each_LINE(st, header, flag, lineno) ==
  LET n == Len(st.excluding)
  IN CASE flag = "START" ->
            [st EXCEPT !.excluding = Append(@, Region(header, lineno))]
       [] flag = "STOP" /\ n > 0 ->
            LET top == st.excluding[n]
                popped == SubSeq(st.excluding, 1, n - 1)
            IN IF top # Sentinel /\ top.header # header
                 THEN [st EXCEPT !.excluding = popped,
                                 !.stderr = Append(@,
                                   [kind |-> "terminated_by",
                                    start |-> top.header,
                                    start_line |-> top.line,
                                    stop |-> header,
                                    stop_line |-> lineno])]
                 ELSE [st EXCEPT !.excluding = popped]
       [] flag = "STOP" /\ n = 0 ->
            [st EXCEPT !.stderr = Append(@,
               [kind |-> "stop_without_start",
                stop |-> header, stop_line |-> lineno])]
       [] OTHER -> [st EXCEPT !.excluding = Append(@, Sentinel)]

\* a slip: the region opens on the line after the START marker
ScanMarker_ignores_START(st, header, flag, lineno) ==
  LET n == Len(st.excluding)
  IN CASE flag = "START" -> st
       [] flag = "STOP" /\ n > 0 ->
            LET top == st.excluding[n]
                popped == SubSeq(st.excluding, 1, n - 1)
            IN IF top.header # header
                 THEN [st EXCEPT !.excluding = popped,
                                 !.stderr = Append(@,
                                   [kind |-> "terminated_by",
                                    start |-> top.header,
                                    start_line |-> top.line,
                                    stop |-> header,
                                    stop_line |-> lineno])]
                 ELSE [st EXCEPT !.excluding = popped]
       [] flag = "STOP" /\ n = 0 ->
            [st EXCEPT !.stderr = Append(@,
               [kind |-> "stop_without_start",
                stop |-> header, stop_line |-> lineno])]
       [] OTHER -> [st EXCEPT !.excl_line = TRUE]

\* lines 240-265: one (header, flag) pair found on the line
ScanMarker(st, header, flag, lineno) ==
  LET n == Len(st.excluding)
  IN CASE flag = "START" ->
            [st EXCEPT !.excluding = Append(@, Region(header, lineno))]
       [] flag = "STOP" /\ n > 0 ->
            LET top == st.excluding[n]
                popped == SubSeq(st.excluding, 1, n - 1)
            IN IF top.header # header
                 THEN [st EXCEPT !.excluding = popped,
                                 !.stderr = Append(@,
                                   [kind |-> "terminated_by",
                                    start |-> top.header,
                                    start_line |-> top.line,
                                    stop |-> header,
                                    stop_line |-> lineno])]
                 ELSE [st EXCEPT !.excluding = popped]
       [] flag = "STOP" /\ n = 0 ->
            [st EXCEPT !.stderr = Append(@,
               [kind |-> "stop_without_start",
                stop |-> header, stop_line |-> lineno])]
       [] OTHER -> [st EXCEPT !.excl_line = TRUE]

\* the loop "for header, flag in exclude_line_pattern.findall(line)"
RECURSIVE ScanMarkers(_, _, _)
ScanMarkers(st, markers, lineno) ==
  IF markers = <<>> THEN st
  ELSE ScanMarkers(ScanMarker(st, Head(markers)[1], Head(markers)[2], lineno),
                   Tail(markers), lineno)

\* re.sub(cpp_style_comment_pattern, '', code): '//.*?$' removes from the
\* first "//" that no newline follows before the end of the text.  The end
\* is the end of the string or the place before a newline that is its last
\* character: that newline stays
StripCppComment(s) ==
  LET end == IF s # <<>> /\ s[Len(s)] = "\n" THEN Len(s) - 1 ELSE Len(s)
      starts == {i \in 1..(end - 1) :
                   /\ s[i] = "/"
                   /\ s[i + 1] = "/"
                   /\ \A k \in (i + 2)..end : s[k] # "\n"}
  IN IF starts = {} THEN s
     ELSE LET i == CHOOSE x \in starts : \A y \in starts : x <= y
          IN SubSeq(s, 1, i - 1) \o SubSeq(s, end + 1, Len(s))

\* re.sub(c_style_comment_pattern, '', code): '/\*.*?\*/' removes, left to
\* right, each "/*" up to the nearest following "*/" with no newline in
\* between
RECURSIVE StripCComments(_)
StripCComments(s) ==
  IF s = <<>> THEN <<>>
  ELSE
    LET ends == {j \in 3..(Len(s) - 1) : s[j] = "*" /\ s[j + 1] = "/"}
        j == CHOOSE x \in ends : \A y \in ends : x <= y
    IN IF StartsWith(s, <<"/", "*">>) /\ ends # {}
            /\ \A k \in 3..(j - 1) : s[k] # "\n"
         THEN StripCComments(SubSeq(s, j + 2, Len(s)))
         ELSE <<Head(s)>> \o StripCComments(Tail(s))

NoSpace(s) == SelectSeq(s, LAMBDA c : c # " ")

\* lines 294-303: is the last code line compiler-generated (only braces)?
CompilerGenerated(last_code_line, python) ==
  LET code == Strip(StripCComments(StripCppComment(last_code_line)), python)
  IN \/ Len(code) = 0
     \/ code = <<"{">>
     \/ code = <<"}">>
     \/ NoSpace(code) = <<"{", "}">>

\* lines 274-275: a line remembered as non-code
IsNoncodeText(code) ==
  \/ Len(code) = 0
  \/ code = <<"{">>
  \/ code = <<"}">>
  \/ StartsWith(code, <<"/", "/">>)
  \/ code = <<"e", "l", "s", "e">>

\* One iteration of "for line in INPUT" (lines 229-349) on the locals g.
ParseLine(g, ln, options, python) ==
  LET lineno == IF ln.nseg > 1 /\ ln.numok THEN ln.num ELSE g.lineno
      scanned ==
        IF ln.excl # <<>>
          THEN ScanMarkers([excluding |-> g.excluding, stderr |-> g.stderr,
                            excl_line |-> FALSE], ln.excl, lineno)
          ELSE [excluding |-> g.excluding, stderr |-> g.stderr,
                excl_line |-> FALSE]
      excluding == IF scanned.excl_line
                     THEN Append(scanned.excluding, Sentinel)
                     ELSE scanned.excluding
      g1 == [g EXCEPT !.lineno = lineno, !.excluding = excluding,
                      !.stderr = scanned.stderr]
      counted == ln.tmp \in {"#", "=", "digit"}
      is_code_statement == ln.tmp = "-" \/ counted
      g2 ==
        IF ln.tmp = "empty" THEN [g1 EXCEPT !.raised = "IndexError"]
        ELSE IF ln.tmp = "-" \/ (excluding # <<>> /\ counted) THEN
          IF ln.nseg < 3 THEN [g1 EXCEPT !.raised = "IndexError"]
          ELSE IF excluding # <<>> \/ IsNoncodeText(Strip(ln.seg2, python))
            THEN [g1 EXCEPT !.noncode = @ \cup {lineno}]
            ELSE g1
        ELSE
          CASE ln.tmp = "#" -> [g1 EXCEPT !.uncovered = @ \cup {lineno}]
            [] ln.tmp = "=" ->
                 [g1 EXCEPT !.uncovered_exceptional = @ \cup {lineno}]
            [] ln.tmp = "digit" ->
                 IF ln.countok
                   THEN [g1 EXCEPT !.covered = Put(@, lineno, ln.count)]
                   ELSE [g1 EXCEPT !.raised = "ValueError"]
            [] ln.tmp = "branch" ->
                 LET on_last_code_line == lineno = g.last_code_lineno
                     exclude_branch ==
                       /\ options.exclude_unreachable_branches
                       /\ on_last_code_line
                       /\ \/ g.last_code_line_excluded
                          \/ CompilerGenerated(g.last_code_line, python)
                 IN IF exclude_branch \/ ~ln.bcntok THEN g1
                    ELSE IF ~ln.bidxok
                      \* setdefault has run when int(fields[1]) fails
                      THEN [g1 EXCEPT !.branches =
                              Put(@, lineno, Get(@, lineno, EmptyMap))]
                      ELSE [g1 EXCEPT !.branches =
                              Put(@, lineno,
                                  Put(Get(@, lineno, EmptyMap), ln.bidx, ln.bcnt))]
            [] ln.tmp \in {"call", "function", "f"} -> g1
            [] OTHER ->
                 [g1 EXCEPT !.stderr = Append(@, [kind |-> "unrecognized"])]
      g3 ==
        IF is_code_statement
          THEN [g2 EXCEPT !.last_code_line =
                            IF ln.nseg > 2 THEN ln.seg2 ELSE <<>>,
                          !.last_code_lineno = lineno,
                          !.last_code_line_excluded = (excluding # <<>>)]
          ELSE g2
      n == Len(g3.excluding)
  IN IF g2.raised # "none" THEN g2
     ELSE IF n > 0 /\ g3.excluding[n] = Sentinel
       THEN [g3 EXCEPT !.excluding = SubSeq(@, 1, n - 1)]
       ELSE g3

\* the whole loop over the lines of one report
RECURSIVE ParseLines(_, _, _, _)
ParseLines(g, lines, options, python) ==
  IF lines = <<>> \/ g.raised # "none" THEN g
  ELSE ParseLines(ParseLine(g, Head(lines), options, python), Tail(lines),
                  options, python)

\* a slip: "and" for "or" in the header test
HeaderCheck_and(hdr) ==
  IF hdr.nseg < 3 THEN "IndexError"
  ELSE IF hdr.nseg # 4 /\ ~hdr.ends_with_source THEN "RuntimeError"
  ELSE "none"

\* lines 176-180: the header line, as the number of pieces of
\* line.split(':', 3) and whether the third ends with "source"
HeaderCheck(hdr) ==
  IF hdr.nseg < 3 THEN "IndexError"
  ELSE IF hdr.nseg # 4 \/ ~hdr.ends_with_source THEN "RuntimeError"
  ELSE "none"

\* lines 360-365: create the record or fold the report into it
\* a slip: covdata[fname] is assigned a new record whether or not fname is
\* already in covdata
Upsert_always_creates(cd, fname, g) ==
  Put(cd, fname,
      CoverageData(fname, g.uncovered, g.uncovered_exceptional,
                   g.covered, g.branches, g.noncode))

Upsert(cd, fname, g) ==
  IF fname \notin DOMAIN cd
    THEN Put(cd, fname,
             CoverageData(fname, g.uncovered, g.uncovered_exceptional,
                          g.covered, g.branches, g.noncode))
    ELSE Put(cd, fname,
             update(cd[fname], g.uncovered, g.uncovered_exceptional,
                    g.covered, g.branches, g.noncode))

\* a slip: only the innermost open region is reported
Unterminated_innermost_only(excluding) ==
  IF excluding = <<>> THEN <<>>
  ELSE <<[kind |-> "unterminated",
          start |-> excluding[Len(excluding)].header,
          start_line |-> excluding[Len(excluding)].line]>>

\* lines 368-372: one warning per region still open at the end
RECURSIVE Unterminated(_)
Unterminated(excluding) ==
  IF excluding = <<>> THEN <<>>
  ELSE <<[kind |-> "unterminated", start |-> Head(excluding).header,
          start_line |-> Head(excluding).line]>> \o Unterminated(Tail(excluding))

(***************************************************************************)
(* The report lines and headers the parser is run on.                      *)
(***************************************************************************)
Lines == {1, 2}

Text(tmp, countok, count, nseg, numok, num, seg2, excl) ==
  [tmp |-> tmp, countok |-> countok, count |-> count, nseg |-> nseg,
   numok |-> numok, num |-> num, seg2 |-> seg2, excl |-> excl,
   bidxok |-> FALSE, bidx |-> 0, bcntok |-> FALSE, bcnt |-> 0]

\* "branch  <idx> taken <cnt>": no colon, so no line number of its own
Branch(bidxok, bidx, bcntok, bcnt) ==
  [tmp |-> "branch", countok |-> FALSE, count |-> 0, nseg |-> 1,
   numok |-> FALSE, num |-> 0, seg2 |-> <<>>, excl |-> <<>>,
   bidxok |-> bidxok, bidx |-> bidx, bcntok |-> bcntok, bcnt |-> bcnt]

Stmt == <<" ", "x", ";">>

CodeLinesAt(n) ==
  {Text("-", FALSE, 0, 3, TRUE, n, <<" ", "}">>, <<>>),
   Text("#", FALSE, 0, 3, TRUE, n, Stmt, <<>>),
   Text("=", FALSE, 0, 3, TRUE, n, Stmt, <<>>),
   Text("digit", TRUE, 1, 3, TRUE, n, Stmt, <<>>)}

\* taken 1, taken -1, an index that is no integer, "never executed"
BranchLines ==
  {Branch(TRUE, 0, TRUE, 1), Branch(TRUE, 0, TRUE, -1),
   Branch(FALSE, 0, TRUE, 1), Branch(TRUE, 0, FALSE, 0)}

ReportLines == (UNION {CodeLinesAt(n) : n \in Lines}) \cup BranchLines

Headers ==
  {[nseg |-> 1, ends_with_source |-> FALSE],
   [nseg |-> 2, ends_with_source |-> FALSE],
   [nseg |-> 3, ends_with_source |-> FALSE],
   [nseg |-> 3, ends_with_source |-> TRUE],
   [nseg |-> 4, ends_with_source |-> FALSE],
   [nseg |-> 4, ends_with_source |-> TRUE]}

GoodHeader == [nseg |-> 4, ends_with_source |-> TRUE]

DefaultOptions == [exclude_unreachable_branches |-> FALSE]

(***************************************************************************)
(* Specification Spec: successive calls of process_gcov_data on reports of *)
(* one source file, read line by line.  gcov holds the call in progress:   *)
(* hdr the header read, g the locals, result how the last call ended,      *)
(* upsert what the last completed call did to covdata.                     *)
(***************************************************************************)
NotPrinting == [pc |-> "off"]

IdleProc == [pc |-> "off"]

IdleFold == [pc |-> "off"]

Init ==
  /\ covdata = EmptyMap
  /\ \E python \in Interpreters :
       gcov = [pc |-> "idle", fname |-> "a.c", hdr |-> GoodHeader,
               g |-> ParserLocals, nlines |-> 0, ncalls |-> 0,
               result |-> "none", upsert |-> "none",
               options |-> DefaultOptions, python |-> python]
  /\ proc = IdleProc
  /\ fold = IdleFold
  /\ printed = NotPrinting

\* the locals are dead once the call is over; what it wrote to stderr stays
Closed(stderr) == [ParserLocals EXCEPT !.stderr = stderr]

\* lines 166-228: open the report, check the header, apply the filters
OpenReport(hdr, filt) ==
  /\ gcov.pc = "idle"
  /\ gcov.ncalls < MaxReports
  /\ gcov' =
       IF HeaderCheck(hdr) # "none"
         THEN [gcov EXCEPT !.ncalls = @ + 1, !.result = HeaderCheck(hdr),
                           !.hdr = hdr, !.g = ParserLocals]
       ELSE IF filt # "pass"
         THEN [gcov EXCEPT !.ncalls = @ + 1, !.result = filt,
                           !.hdr = hdr, !.g = ParserLocals]
       ELSE [gcov EXCEPT !.ncalls = @ + 1, !.result = "none", !.pc = "lines",
                         !.hdr = hdr, !.g = ParserLocals]
  /\ UNCHANGED <<covdata, proc, fold, printed>>

\* lines 229-349: one line of the report
ReadLine(ln) ==
  /\ gcov.pc = "lines"
  /\ gcov.nlines < MaxInput
  /\ LET g == ParseLine(gcov.g, ln, gcov.options, gcov.python)
     IN gcov' =
          IF g.raised # "none"
            THEN [gcov EXCEPT !.pc = "idle", !.result = g.raised,
                              !.g = Closed(g.stderr), !.nlines = @ + 1]
            ELSE [gcov EXCEPT !.g = g, !.nlines = @ + 1]
  /\ UNCHANGED <<covdata, proc, fold, printed>>

\* lines 360-372: end of the report
EndReport ==
  /\ gcov.pc = "lines"
  /\ covdata' = Upsert(covdata, gcov.fname, gcov.g)
  /\ gcov' = [gcov EXCEPT !.pc = "idle", !.result = "ok",
                          !.upsert = IF gcov.fname \in DOMAIN covdata
                                       THEN "updated" ELSE "created",
                          !.g = Closed(gcov.g.stderr
                                         \o Unterminated(gcov.g.excluding))]
  /\ UNCHANGED <<proc, fold, printed>>

Next ==
  \/ \E hdr \in Headers, filt \in {"pass", "filtered", "excluded"} :
       OpenReport(hdr, filt)
  \/ \E ln \in ReportLines : ReadLine(ln)
  \/ EndReport

Spec == Init /\ [][Next]_vars

(***************************************************************************)
(* Properties of the record and of process_gcov_data, under Spec.          *)
(***************************************************************************)
Records == {covdata[f] : f \in DOMAIN covdata}

Keys(d) == DOMAIN d

\* the step that ends a report and folds it into covdata
UpsertStep == gcov.pc = "lines" /\ gcov'.pc = "idle" /\ gcov'.result = "ok"

BranchCount(branches, k, b) ==
  IF k \in DOMAIN branches THEN Get(branches[k], b, 0) ELSE 0

BranchKeys(branches) ==
  UNION {{<<k, b>> : b \in DOMAIN branches[k]} : k \in DOMAIN branches}

\* C1: after CoverageData.update returns, no key of covered is in uncovered
\* or in uncovered_exceptional.
C1_CoveredNotUncoveredAfterUpdate ==
  gcov.upsert = "updated" =>
    \A r \in Records :
      /\ r.uncovered \cap Keys(r.covered) = {}
      /\ r.uncovered_exceptional \cap Keys(r.covered) = {}

\* a record updated at least once in which one line is covered by both
\* reports while another is still uncovered
C1_Witness ==
  /\ gcov.upsert = "updated"
  /\ "a.c" \in DOMAIN covdata
  /\ 1 \in Keys(covdata["a.c"].covered)
  /\ 1 \in covdata["a.c"].all_lines
  /\ 2 \in covdata["a.c"].uncovered
  /\ 2 \in covdata["a.c"].uncovered_exceptional

\* C2: a record created from report A holds A's counts, and folding report B
\* into a record gives, for every line, the record's count plus B's count
\* (a missing count being 0), and likewise for every line and branch index of
\* the branches table; so A then B gives A's count plus B's count.
C2_CountsAreSummed ==
  [][UpsertStep =>
       LET f == gcov.fname
           B == gcov.g
           new == covdata'[f]
       IN IF f \notin DOMAIN covdata
            THEN /\ \A k \in Keys(new.covered) \cup Keys(B.covered) :
                      Get(new.covered, k, 0) = Get(B.covered, k, 0)
                 /\ \A kb \in BranchKeys(new.branches) \cup BranchKeys(B.branches) :
                      BranchCount(new.branches, kb[1], kb[2])
                        = BranchCount(B.branches, kb[1], kb[2])
            ELSE LET A == covdata[f]
                 IN /\ \A k \in Keys(new.covered) \cup Keys(A.covered)
                                  \cup Keys(B.covered) :
                         Get(new.covered, k, 0)
                           = Get(A.covered, k, 0) + Get(B.covered, k, 0)
                    /\ \A kb \in BranchKeys(new.branches)
                                   \cup BranchKeys(A.branches)
                                   \cup BranchKeys(B.branches) :
                         BranchCount(new.branches, kb[1], kb[2])
                           = BranchCount(A.branches, kb[1], kb[2])
                             + BranchCount(B.branches, kb[1], kb[2])]_vars

\* two reports folded: line 1 counted once in each, branch 0 of line 1 too
C2_Witness ==
  /\ gcov.upsert = "updated"
  /\ gcov.ncalls = 2
  /\ "a.c" \in DOMAIN covdata
  /\ Get(covdata["a.c"].covered, 1, 0) = 2
  /\ BranchCount(covdata["a.c"].branches, 1, 0) = 2

\* C4: in every state of a record, all_lines contains every key of covered
\* and every member of uncovered and of uncovered_exceptional.
C4_AllLinesContainsTheRest ==
  \A r \in Records :
    Keys(r.covered) \cup r.uncovered \cup r.uncovered_exceptional
      \subseteq r.all_lines

\* an updated record with a covered line and a line in both uncovered sets
C4_Witness ==
  /\ gcov.upsert = "updated"
  /\ "a.c" \in DOMAIN covdata
  /\ Keys(covdata["a.c"].covered) = {1}
  /\ covdata["a.c"].uncovered = {2}
  /\ covdata["a.c"].uncovered_exceptional = {2}
  /\ covdata["a.c"].all_lines = {1, 2}

\* C5 (as claimed): covered's keys, uncovered and uncovered_exceptional are
\* pairwise disjoint after record creation and after every update.
C5_PairwiseDisjoint ==
  gcov.upsert \in {"created", "updated"} =>
    \A r \in Records :
      /\ r.uncovered \cap Keys(r.covered) = {}
      /\ r.uncovered_exceptional \cap Keys(r.covered) = {}
      /\ r.uncovered \cap r.uncovered_exceptional = {}

\* C6 (as claimed): across the updates of a record no covered count and no
\* branch count decreases, and no covered line or branch entry disappears.
C6_CountsNeverDecrease ==
  [][\A f \in DOMAIN covdata :
       /\ f \in DOMAIN covdata'
       /\ \A k \in Keys(covdata[f].covered) :
            /\ k \in Keys(covdata'[f].covered)
            /\ covdata'[f].covered[k] >= covdata[f].covered[k]
       /\ \A k \in Keys(covdata[f].branches) :
            /\ k \in Keys(covdata'[f].branches)
            /\ \A b \in Keys(covdata[f].branches[k]) :
                 /\ b \in Keys(covdata'[f].branches[k])
                 /\ covdata'[f].branches[k][b] >= covdata[f].branches[k][b]]_vars

BadHeader(hdr) == hdr.nseg < 4 \/ ~hdr.ends_with_source

\* C10: process_gcov_data on a report whose first line has fewer than four
\* colon-delimited fields, or whose third field does not end in "source",
\* ends in an error and leaves the path -> record mapping as it was.
C10_BadHeaderRejected ==
  [][(gcov'.ncalls = gcov.ncalls + 1 /\ BadHeader(gcov'.hdr)) =>
       /\ covdata' = covdata
       /\ gcov'.pc = "idle"
       /\ gcov'.result \in {"RuntimeError", "IndexError"}]_vars

\* a report with four fields whose third is not "...source", rejected after
\* an earlier report was merged
C10_Witness ==
  /\ gcov.hdr = [nseg |-> 4, ends_with_source |-> FALSE]
  /\ gcov.result = "RuntimeError"
  /\ gcov.pc = "idle"
  /\ "a.c" \in DOMAIN covdata
  /\ covdata["a.c"].covered # EmptyMap

(***************************************************************************)
(* Specification SpecFold: the reports of one source file, each parsed     *)
(* into (uncovered, uncovered_exceptional, covered, branches, noncode),    *)
(* are folded into one record in an arbitrary order: the first by          *)
(* CoverageData(...), the others by update (lines 360-365).                *)
(***************************************************************************)
Parsed(g) ==
  [uncovered |-> g.uncovered,
   uncovered_exceptional |-> g.uncovered_exceptional,
   covered |-> g.covered,
   branches |-> g.branches,
   noncode |-> g.noncode]

FoldLines ==
  CodeLinesAt(1) \cup
  {Branch(TRUE, 0, TRUE, 1), Branch(TRUE, 0, TRUE, -1), Branch(FALSE, 0, TRUE, 1)}

FoldTexts == UNION {[1..n -> FoldLines] : n \in {0, 1, 2}}

FoldReports(python) ==
  {Parsed(ParseLines(ParserLocals, t, DefaultOptions, python)) : t \in FoldTexts}

NoRecord == [fname |-> "none"]

FoldOne(rec, r) ==
  IF rec = NoRecord
    THEN CoverageData("a.c", r.uncovered, r.uncovered_exceptional, r.covered,
                      r.branches, r.noncode)
    ELSE update(rec, r.uncovered, r.uncovered_exceptional, r.covered,
                r.branches, r.noncode)

RECURSIVE FoldAll(_, _)
FoldAll(rec, reps) ==
  IF reps = <<>> THEN rec ELSE FoldAll(FoldOne(rec, Head(reps)), Tail(reps))

InitFold ==
  /\ printed = NotPrinting
  /\ covdata = EmptyMap
  /\ gcov = [pc |-> "off"]
  /\ proc = IdleProc
  /\ \E python \in Interpreters :
       \E reps \in [1..NumFold -> FoldReports(python)] :
         fold = [pc |-> "fold", python |-> python, reps |-> reps,
                 done |-> <<>>, rec |-> NoRecord]

Folded == {fold.done[j] : j \in 1..Len(fold.done)}

\* the first report names the file: covdata[fname] = CoverageData(...)
FoldCreate(i) ==
  /\ fold.pc = "fold"
  /\ fold.done = <<>>
  /\ fold' = [fold EXCEPT !.done = <<i>>,
                          !.rec = FoldOne(NoRecord, fold.reps[i])]
  /\ UNCHANGED <<covdata, gcov, proc, printed>>

\* a later report of the same file: covdata[fname].update(...)
FoldUpdate(i) ==
  /\ fold.pc = "fold"
  /\ fold.done # <<>>
  /\ i \notin Folded
  /\ fold' = [fold EXCEPT !.done = Append(@, i),
                          !.rec = FoldOne(fold.rec, fold.reps[i])]
  /\ UNCHANGED <<covdata, gcov, proc, printed>>

NextFold ==
  \/ \E i \in 1..NumFold : FoldCreate(i)
  \/ \E i \in 1..NumFold : FoldUpdate(i)

SpecFold == InitFold /\ [][NextFold]_vars

\* C3 (as claimed): whatever the order in which the reports of a file are
\* folded, the final record (covered, uncovered, uncovered_exceptional,
\* noncode, all_lines, branches) is the one the list order gives.
C3_FoldOrderIndependent ==
  (fold.pc = "fold" /\ Len(fold.done) = NumFold) =>
    fold.rec = FoldAll(NoRecord, fold.reps)

\* the lines every report folded so far lists as non-code
NoncodeOfAll(done) ==
  {l \in UNION {fold.reps[done[j]].noncode : j \in 1..Len(done)} :
     \A j \in 1..Len(done) : l \in fold.reps[done[j]].noncode}

\* C15: across merges the noncode set of a record only shrinks, and after
\* any number of reports have been folded it is the intersection of their
\* noncode sets: a line that one folded report does not list as non-code is
\* not in noncode again, whatever the later reports say.
C15_NoncodeIsIntersection ==
  [][/\ fold'.done # <<>> => fold'.rec.noncode = NoncodeOfAll(fold'.done)
     /\ fold.done # <<>> => fold'.rec.noncode \subseteq fold.rec.noncode]_vars

\* the first report folded has no non-code line, the second lists line 1 as
\* non-code, and line 1 is not non-code in the record
C15_Witness ==
  /\ Len(fold.done) = 2
  /\ fold.reps[fold.done[1]].noncode = {}
  /\ fold.reps[fold.done[2]].noncode = {1}
  /\ fold.rec.noncode = {}

(***************************************************************************)
(* Specification SpecRun: process_files over a list of artifacts.  A        *)
(* directory is the sequence of its path components, <<>> being the root.  *)
(* process_datafile assigns neither potential_wd nor Done nor errors: the  *)
(* statements that would (lines 405-459) follow "return gcov_files" in     *)
(* find_gcov_files and are never executed.  The test of its loop (line     *)
(* 501) therefore raises NameError on the first artifact, before any       *)
(* directory is changed into and before gcov is run.  What gcov would do   *)
(* in a directory (exit non-zero, report "cannot open", or resolve) is     *)
(* part of the environment of the run.                                     *)
(***************************************************************************)
Dir(d) == [j \in 1..d |-> j]

\* os.path.split(wd)[0]
Parent(wd) == IF wd = <<>> THEN <<>> ELSE SubSeq(wd, 1, Len(wd) - 1)

\* lines 453-459, in the statements after the return of find_gcov_files:
\* the list that walking up the directory tree builds
RECURSIVE WalkUp(_)
WalkUp(wd) ==
  IF Parent(wd) = wd THEN <<wd>> ELSE <<wd>> \o WalkUp(Parent(wd))

ArtifactDirs == {Dir(d) : d \in 0..MaxDepth}

StartDirs == {<<>>, <<0>>}

\* gcov in a directory: exit 0 and no diagnostic, exit 0 and "cannot open
\* (source|graph) file" on stderr, or a non-zero exit
ToolOutcomes == {"resolved", "cannot_open", "failed"}

InitRun ==
  /\ printed = NotPrinting
  /\ covdata = EmptyMap
  /\ gcov = [pc |-> "off"]
  /\ fold = IdleFold
  /\ \E datafiles \in UNION {[1..n -> ArtifactDirs] : n \in 0..NumArtifacts},
        start_dir \in StartDirs, tool \in [ArtifactDirs -> ToolOutcomes] :
       proc = [pc |-> "files", start_dir |-> start_dir, cwd |-> start_dir,
               datafiles |-> datafiles, tool |-> tool, file |-> 0,
               invoked |-> <<>>, stderr |-> <<>>, error |-> "none"]

\* lines 558-559 and 485-501: process_datafile on the next artifact.  Lines
\* 488-499 build abs_filename, cmd and env; line 501 reads potential_wd,
\* which is not defined, and the NameError leaves process_files
StartDatafile ==
  /\ proc.pc = "files"
  /\ proc.file < Len(proc.datafiles)
  /\ proc' = [proc EXCEPT !.pc = "raised", !.file = @ + 1,
                          !.error = "NameError"]
  /\ UNCHANGED <<covdata, gcov, fold, printed>>

\* lines 560-564: the list is exhausted; os.chdir(start_dir); return covdata
Return ==
  /\ proc.pc = "files"
  /\ proc.file = Len(proc.datafiles)
  /\ proc' = [proc EXCEPT !.pc = "returned", !.cwd = proc.start_dir]
  /\ UNCHANGED <<covdata, gcov, fold, printed>>

NextRun ==
  \/ StartDatafile
  \/ Return

SpecRun == InitRun /\ [][NextRun]_vars

Finished == proc.pc \in {"returned", "raised"}

\* C7: whenever process_files finishes, by returning or by an error
\* propagating out of it, the working directory is the one it was entered
\* in.
C7_WorkingDirectoryRestored == Finished => proc.cwd = proc.start_dir

\* C8 (as claimed): the run never aborts because of one artifact; when an
\* artifact fails every later artifact is still processed and process_files
\* returns the mapping.
C8_RunNeverAborts ==
  Finished => (proc.pc = "returned" /\ proc.file = Len(proc.datafiles))

IsPrefix(s, t) == Len(s) <= Len(t) /\ s = SubSeq(t, 1, Len(s))

\* the candidate directories of artifact i, closest first, and what gcov
\* does in each
Candidates(i) == WalkUp(proc.datafiles[i])

Outcomes(i) == [k \in 1..Len(Candidates(i)) |-> proc.tool[Candidates(i)[k]]]

\* candidate k of artifact i is the first that resolves, the earlier ones
\* reporting "cannot open"
FirstResolved(i, k) ==
  /\ k \in 1..Len(Candidates(i))
  /\ Outcomes(i)[k] = "resolved"
  /\ \A j \in 1..(k - 1) : Outcomes(i)[j] = "cannot_open"

\* process_datafile has been called on an artifact and has been left
LeftDatafile == proc.file >= 1

\* C9 (as claimed): candidates are tried in list order and the search stops
\* at the first candidate whose invocation exits zero without a "cannot
\* open" diagnostic: when that is candidate k, the tool has been invoked in
\* the first k candidates, in order, and in no other.
C9_StopsAtFirstResolved ==
  LeftDatafile =>
    \A k \in 1..Len(Candidates(proc.file)) :
      FirstResolved(proc.file, k) =>
        proc.invoked = SubSeq(Candidates(proc.file), 1, k)

AllCannotOpen(i) ==
  \A k \in 1..Len(Candidates(i)) : Outcomes(i)[k] = "cannot_open"

\* C11 (as claimed): when every candidate of an artifact exits zero with a
\* "cannot open" diagnostic, the mapping is left alone, exactly one warning
\* is written that carries the diagnostics of every candidate tried, and
\* process_datafile returns without an error.
C11_UnresolvedArtifactWarnsOnce ==
  (proc.file = 1 /\ AllCannotOpen(1)) =>
    /\ proc.pc # "raised"
    /\ proc.error = "none"
    /\ covdata = EmptyMap
    /\ proc.invoked = Candidates(1)
    /\ proc.stderr = <<[kind |-> "no_working_dir", errors |-> Candidates(1)]>>

(***************************************************************************)
(* Specification SpecStr: CoverageData.uncovered_str on one record whose   *)
(* line sets are drawn from StrLines.                                      *)
(***************************************************************************)
MaxStrLine == 8

StrLines == 3..MaxStrLine

Digits == <<"0", "1", "2", "3", "4", "5", "6", "7", "8", "9">>

\* str(x) of a non-negative int
RECURSIVE Str(_)
Str(x) ==
  IF x < 10 THEN <<Digits[x + 1]>> ELSE Str(x \div 10) \o <<Digits[(x % 10) + 1]>>

\* sep.join(parts)
RECURSIVE Join(_, _)
Join(sep, parts) ==
  IF parts = <<>> THEN <<>>
  ELSE IF Len(parts) = 1 THEN parts[1]
  ELSE parts[1] \o sep \o Join(sep, Tail(parts))

\* tmp = list(S); tmp.sort()
RECURSIVE Sorted(_)
Sorted(S) ==
  IF S = {} THEN <<>>
  ELSE LET m == CHOOSE x \in S : \A y \in S : x <= y
       IN <<m>> \o Sorted(S \ {m})

\* a slip: a single-element range printed as "n-n"
RangeStr_always_pair(first, last) == Str(first) \o <<"-">> \o Str(last)

\* lines 113-116 and 119-122: the text of one range
RangeStr(first, last) ==
  IF first = last THEN Str(first) ELSE Str(first) \o <<"-">> \o Str(last)

\* lines 99-118: the loop over the sorted lines from position i on, with
\* first and last of the range being built (i > 1) and the ranges emitted
RECURSIVE RangeLoop(_, _, _, _, _, _)
RangeLoop(tmp, i, first, last, ranges, noncode) ==
  IF i > Len(tmp) THEN Append(ranges, RangeStr(first, last))
  ELSE LET item == tmp[i]
           items_left == Cardinality(noncode \cap ((last + 1)..(item - 1)))
       IN IF i = 1 THEN RangeLoop(tmp, 2, item, item, ranges, noncode)
          ELSE IF item = last + 1
            THEN RangeLoop(tmp, i + 1, first, item, ranges, noncode)
          ELSE IF items_left = item - last - 1
            THEN RangeLoop(tmp, i + 1, first, item, ranges, noncode)
          ELSE RangeLoop(tmp, i + 1, item, item,
                         Append(ranges, RangeStr(first, last)), noncode)

\* lines 76-123
uncovered_str(self, exceptional, show_branch) ==
  IF show_branch
    THEN LET tmp == Sorted({line \in DOMAIN self.branches :
                              \E branch \in DOMAIN self.branches[line] :
                                self.branches[line][branch] = 0})
         IN Join(<<",">>, [k \in 1..Len(tmp) |-> Str(tmp[k])])
  ELSE LET tmp == Sorted(IF exceptional THEN self.uncovered_exceptional
                         ELSE self.uncovered)
       IN IF Len(tmp) = 0 THEN <<>>
          ELSE Join(<<",">>, RangeLoop(tmp, 1, 0, 0, <<>>, self.noncode))

\* the record of the call: the lines U in one of the two uncovered sets, the
\* non-code lines N, and a branch never taken on each line of both U and N
InitStr ==
  /\ gcov = [pc |-> "off"]
  /\ proc = IdleProc
  /\ fold = IdleFold
  /\ printed = [pc |-> "idle"]
  /\ \E U \in SUBSET StrLines, N \in SUBSET StrLines, exceptional \in BOOLEAN :
       covdata = Put(EmptyMap, "a.c",
                     CoverageData("a.c",
                                  IF exceptional THEN {} ELSE U,
                                  IF exceptional THEN U ELSE {},
                                  EmptyMap,
                                  IF U \cap N = {} THEN EmptyMap
                                  ELSE [l \in U \cap N |-> Put(EmptyMap, 0, 0)],
                                  N))

\* lines 151-153: summary asks for the text of one of the line sets
UncoveredStr(exceptional, show_branch) ==
  /\ printed.pc \in {"idle", "done"}
  /\ printed' = [pc |-> "done", exceptional |-> exceptional,
                 show_branch |-> show_branch,
                 text |-> uncovered_str(covdata["a.c"], exceptional, show_branch)]
  /\ UNCHANGED <<covdata, gcov, proc, fold>>

NextStr ==
  \E exceptional \in BOOLEAN, show_branch \in BOOLEAN :
    UncoveredStr(exceptional, show_branch)

SpecStr == InitStr /\ [][NextStr]_vars

\* the set the call read in line mode
LineSet ==
  IF printed.exceptional THEN covdata["a.c"].uncovered_exceptional
  ELSE covdata["a.c"].uncovered

\* every integer strictly between a and b is a non-code line
Bridged(a, b) == \A k \in (a + 1)..(b - 1) : k \in covdata["a.c"].noncode

\* a is the first line of a range: no smaller line is joined to it
StartsRange(a) ==
  \A p \in LineSet : (p < a /\ \A q \in LineSet : ~(p < q /\ q < a)) => ~Bridged(p, a)

\* b is the last line of a range: no larger line is joined to it
EndsRange(b) ==
  \A p \in LineSet : (b < p /\ \A q \in LineSet : ~(b < q /\ q < p)) => ~Bridged(b, p)

\* the ranges the claim describes, as <<first, last>> pairs
ClaimedRanges ==
  {r \in LineSet \X LineSet :
     /\ r[1] <= r[2]
     /\ StartsRange(r[1])
     /\ EndsRange(r[2])
     /\ \A x \in LineSet : (r[1] < x /\ x <= r[2]) => ~StartsRange(x)}

\* the claimed text: the ranges in ascending order, "a-b" or "a", with commas
ClaimedText ==
  LET firsts == Sorted({r[1] : r \in ClaimedRanges})
      lastOf(f) == CHOOSE l \in LineSet : <<f, l>> \in ClaimedRanges
  IN Join(<<",">>, [k \in 1..Len(firsts) |->
                     IF firsts[k] = lastOf(firsts[k]) THEN Str(firsts[k])
                     ELSE Str(firsts[k]) \o <<"-">> \o Str(lastOf(firsts[k]))])

\* C12: in line mode uncovered_str returns the ascending comma-separated
\* ranges that partition the line set, two successive lines sharing a range
\* exactly when every integer strictly between them is a non-code line; a
\* range of one line is printed as the number, the empty set gives the empty
\* text, {3,4,5,7,8} with no non-code line gives "3-5,7-8" and {3,5} with
\* non-code line 4 gives "3-5".
C12_RangeCompression ==
  (printed.pc = "done" /\ ~printed.show_branch) =>
    /\ printed.text = ClaimedText
    /\ \A x \in LineSet :
         Cardinality({r \in ClaimedRanges : r[1] <= x /\ x <= r[2]}) = 1
    /\ LineSet = {} => printed.text = <<>>
    /\ (LineSet = {3, 4, 5, 7, 8} /\ covdata["a.c"].noncode = {}) =>
         printed.text = <<"3", "-", "5", ",", "7", "-", "8">>
    /\ (LineSet = {3, 5} /\ covdata["a.c"].noncode = {4}) =>
         printed.text = <<"3", "-", "5">>

\* lines 3, 5, 6 and 8 with non-code line 4: the gap 3..5 is bridged, the gap
\* 6..8 is not, and the text is "3-6,8"
C12_Witness ==
  /\ printed.pc = "done"
  /\ ~printed.show_branch
  /\ LineSet = {3, 5, 6, 8}
  /\ covdata["a.c"].noncode = {4}
  /\ printed.text = <<"3", "-", "6", ",", "8">>

(***************************************************************************)
(* Specification SpecParse: one call of process_gcov_data whose header was *)
(* accepted and whose file passed the filters, read line by line from      *)
(* lines that carry exclusion markers, a zero count, text the parser does  *)
(* not recognise, an empty line and a line cut short.  gcov.line is the    *)
(* line read last, gcov.n the number of lines read.                        *)
(***************************************************************************)
MaxParseLen == 3

\* "x; // ..._EXCL_..." : a statement followed by the comment with the markers
Marked == <<" ", "x", ";", " ", "/", "/">>

MarkerLines ==
  {Text("-", FALSE, 0, 3, TRUE, 2, Marked, <<<<"GCOV", "START">>>>),
   Text("-", FALSE, 0, 3, TRUE, 2, Marked, <<<<"LCOV", "START">>>>),
   Text("#", FALSE, 0, 3, TRUE, 2, Marked, <<<<"GCOV", "STOP">>>>),
   Text("#", FALSE, 0, 3, TRUE, 2, Marked, <<<<"LCOV", "STOP">>>>),
   Text("#", FALSE, 0, 3, TRUE, 2, Marked, <<<<"GCOV", "LINE">>>>),
   Text("#", FALSE, 0, 3, TRUE, 2, Marked,
        <<<<"GCOV", "LINE">>, <<"GCOV", "LINE">>>>),
   Text("#", FALSE, 0, 3, TRUE, 2, Marked,
        <<<<"GCOV", "LINE">>, <<"LCOV", "START">>>>),
   Text("#", FALSE, 0, 3, TRUE, 2, Marked,
        <<<<"GCOV", "LINE">>, <<"GCOV", "STOP">>>>),
   Text("-", FALSE, 0, 3, TRUE, 2, Marked,
        <<<<"GCOV", "START">>, <<"LCOV", "STOP">>>>)}

\* a count of 0, text that is no gcov output, "call ...", an empty line, and
\* "-: 1" with nothing after the line number
OddLines ==
  {Text("digit", TRUE, 0, 3, TRUE, 1, Stmt, <<>>),
   Text("other", FALSE, 0, 3, TRUE, 1, Stmt, <<>>),
   Text("call", FALSE, 0, 1, FALSE, 0, <<>>, <<>>),
   Text("empty", FALSE, 0, 1, FALSE, 0, <<>>, <<>>),
   Text("-", FALSE, 0, 2, TRUE, 1, <<>>, <<>>)}

\* "function ns::f called 1 returned 100%": split(":", 2) gives three
\* pieces, the second of them empty
AnnotationLines ==
  {Branch(TRUE, 0, TRUE, 1),
   Text("function", FALSE, 0, 3, FALSE, 0, <<"f">>, <<>>)}

\* "1: 2: x; // GCOV_EXCL_START" and "=====: 2: x; // GCOV_EXCL_LINE"
MarkedCounts ==
  {Text("digit", TRUE, 1, 3, TRUE, 2, Marked, <<<<"GCOV", "START">>>>),
   Text("=", FALSE, 0, 3, TRUE, 2, Marked, <<<<"GCOV", "LINE">>>>)}

\* counted lines whose text is "{ }", a tab and "}", "}" between a no-break
\* space and an em space, "} // c" with its line end, and "{/*//*/"
BraceLines ==
  {Text("digit", TRUE, 1, 3, TRUE, 1, <<"{", " ", "}">>, <<>>),
   Text("digit", TRUE, 1, 3, TRUE, 1, <<"\t", "}">>, <<>>),
   Text("digit", TRUE, 1, 3, TRUE, 1, <<NBSP, "}", "U+2003">>, <<>>),
   Text("digit", TRUE, 1, 3, TRUE, 1, <<"}", " ", "/", "/", " ", "c", "\n">>, <<>>),
   Text("digit", TRUE, 1, 3, TRUE, 1, <<"{", "/", "*", "/", "/", "*", "/">>, <<>>)}

ParseInput ==
  CodeLinesAt(1) \cup {Text("#", FALSE, 0, 3, TRUE, 2, Stmt, <<>>)}
    \cup MarkerLines \cup OddLines \cup AnnotationLines \cup BraceLines
    \cup MarkedCounts

NoLine == [tmp |-> "none"]

\* the mapping before the call: empty, or holding the record of an earlier
\* report of the file ("#####: 1" and "1: 2")
PriorMaps ==
  {EmptyMap,
   Put(EmptyMap, "a.c",
       CoverageData("a.c", {1}, {}, Put(EmptyMap, 2, 1), EmptyMap, {}))}

InitParse ==
  /\ covdata \in PriorMaps
  /\ proc = IdleProc
  /\ fold = IdleFold
  /\ printed = NotPrinting
  /\ \E exclude_unreachable_branches \in BOOLEAN, python \in Interpreters :
       gcov = [pc |-> "lines", fname |-> "a.c", g |-> ParserLocals,
               line |-> NoLine, n |-> 0, result |-> "none",
               options |-> [exclude_unreachable_branches |->
                              exclude_unreachable_branches],
               python |-> python]

\* a slip: lineno = 0 at the top of every iteration
ParseRead_forgets_lineno(ln) ==
  /\ gcov.pc = "lines"
  /\ gcov.n < MaxParseLen
  /\ LET g == ParseLine([gcov.g EXCEPT !.lineno = 0], ln, gcov.options,
                      gcov.python)
     IN gcov' =
          IF g.raised # "none"
            THEN [gcov EXCEPT !.pc = "raised", !.result = g.raised,
                              !.g = Closed(g.stderr), !.line = ln,
                              !.n = @ + 1]
            ELSE [gcov EXCEPT !.g = g, !.line = ln, !.n = @ + 1]
  /\ UNCHANGED <<covdata, proc, fold, printed>>

\* lines 229-349: one line of the report
ParseRead(ln) ==
  /\ gcov.pc = "lines"
  /\ gcov.n < MaxParseLen
  /\ LET g == ParseLine(gcov.g, ln, gcov.options, gcov.python)
     IN gcov' =
          IF g.raised # "none"
            THEN [gcov EXCEPT !.pc = "raised", !.result = g.raised,
                              !.g = Closed(g.stderr), !.line = ln,
                              !.n = @ + 1]
            ELSE [gcov EXCEPT !.g = g, !.line = ln, !.n = @ + 1]
  /\ UNCHANGED <<covdata, proc, fold, printed>>

\* lines 360-372: end of the report
ParseEnd ==
  /\ gcov.pc = "lines"
  /\ covdata' = Upsert(covdata, gcov.fname, gcov.g)
  /\ gcov' = [gcov EXCEPT !.pc = "done", !.result = "ok",
                          !.g = [@ EXCEPT !.stderr =
                                   @ \o Unterminated(gcov.g.excluding)]]
  /\ UNCHANGED <<proc, fold, printed>>

NextParse ==
  \/ \E ln \in ParseInput : ParseRead(ln)
  \/ ParseEnd

SpecParse == InitParse /\ [][NextParse]_vars

\* C13 (as claimed): every count stored in covered is strictly positive,
\* also after a report with a count field of 0.
C13_CoveredCountsPositive ==
  \A f \in DOMAIN covdata :
    \A l \in DOMAIN covdata[f].covered : covdata[f].covered[l] > 0

\* C14 (as claimed): every line that has a branch table is a member of
\* all_lines.
C14_BranchLinesInAllLines ==
  \A f \in DOMAIN covdata :
    DOMAIN covdata[f].branches \subseteq covdata[f].all_lines

\* C20 (as claimed): after the header is accepted, no line of the report
\* makes the call abort.
C20_ParsingNeverAborts == gcov.pc # "raised"

\* a step that read one more line of the report and did not abort
LineRead ==
  gcov.pc = "lines" /\ gcov'.pc = "lines" /\ gcov'.n = gcov.n + 1

\* what the step wrote to stderr
NewWarnings ==
  SubSeq(gcov'.g.stderr, Len(gcov.g.stderr) + 1, Len(gcov'.g.stderr))

\* the line carries the single marker <family>_EXCL_STOP
OnlyStop(ln) == Len(ln.excl) = 1 /\ ln.excl[1][2] = "STOP"

\* the line carries at least one <family>_EXCL_LINE marker
HasLine(ln) == \E k \in 1..Len(ln.excl) : ln.excl[k][2] = "LINE"

\* a counted line without markers gets its own class and is not non-code
ClassifiedAsCode(ln) ==
  /\ ln.tmp \in {"#", "=", "digit"} => gcov'.g.noncode = gcov.g.noncode
  /\ ln.tmp = "#" => ln.num \in gcov'.g.uncovered
  /\ ln.tmp = "=" => ln.num \in gcov'.g.uncovered_exceptional
  /\ ln.tmp = "digit" => ln.num \in DOMAIN gcov'.g.covered

\* C16: a STOP marker met while the stack is not empty pops exactly the most
\* recent entry whatever its family, and writes the mismatch warning exactly
\* when the family of that entry differs from the STOP's; a START of family
\* GCOV followed at once by a STOP of family LCOV gives exactly one warning
\* and the stack as it was before the START.
C16_StopPopsMostRecent ==
  [][LET ln == gcov'.line
         stack == gcov.g.excluding
         n == Len(stack)
     IN LineRead =>
          /\ (n > 0 /\ OnlyStop(ln)) =>
               /\ gcov'.g.excluding = SubSeq(stack, 1, n - 1)
               /\ NewWarnings =
                    IF stack[n].header # ln.excl[1][1]
                      THEN <<[kind |-> "terminated_by",
                              start |-> stack[n].header,
                              start_line |-> stack[n].line,
                              stop |-> ln.excl[1][1],
                              stop_line |-> ln.num]>>
                      ELSE <<>>
          /\ ln.excl = <<<<"GCOV", "START">>, <<"LCOV", "STOP">>>> =>
               /\ gcov'.g.excluding = stack
               /\ NewWarnings = <<[kind |-> "terminated_by",
                                   start |-> "GCOV", start_line |-> ln.num,
                                   stop |-> "LCOV", stop_line |-> ln.num]>>]_vars

\* a GCOV region, inside it an LCOV region, then GCOV_EXCL_STOP: the LCOV
\* entry is popped with a warning and the GCOV region stays open
C16_Witness ==
  /\ gcov.pc = "lines"
  /\ gcov.n = 3
  /\ gcov.line.excl = <<<<"GCOV", "STOP">>>>
  /\ gcov.g.excluding = <<Region("GCOV", 2)>>
  /\ gcov.g.stderr = <<[kind |-> "terminated_by", start |-> "LCOV",
                        start_line |-> 2, stop |-> "GCOV", stop_line |-> 2]>>
  /\ gcov.g.noncode = {2}
  /\ gcov.g.uncovered = {}

\* C17: a STOP marker met while the stack is empty writes one unmatched-STOP
\* warning, leaves the stack empty and does not abort the parse; the line
\* itself and the line after it are classified as outside any region.
C17_UnmatchedStopWarns ==
  [][LET ln == gcov'.line
     IN /\ (gcov.pc = "lines" /\ gcov' # gcov /\ gcov'.n = gcov.n + 1
              /\ gcov.g.excluding = <<>> /\ OnlyStop(ln)) =>
             /\ gcov'.pc = "lines"
             /\ gcov'.g.excluding = <<>>
             /\ NewWarnings = <<[kind |-> "stop_without_start",
                                 stop |-> ln.excl[1][1],
                                 stop_line |-> ln.num]>>
             /\ ClassifiedAsCode(ln)
        /\ (LineRead /\ gcov.line # NoLine /\ OnlyStop(gcov.line)
              /\ gcov.g.excluding = <<>> /\ ln.excl = <<>> /\ ln.nseg = 3) =>
             ClassifiedAsCode(ln)]_vars

\* "#####: 2: x; // LCOV_EXCL_STOP" first, then "=====: 1: x;": one warning,
\* line 2 uncovered, line 1 uncovered by an exception, no non-code line
C17_Witness ==
  /\ gcov.pc = "lines"
  /\ gcov.n = 2
  /\ gcov.line.tmp = "="
  /\ gcov.g.stderr = <<[kind |-> "stop_without_start", stop |-> "LCOV",
                        stop_line |-> 2]>>
  /\ gcov.g.excluding = <<>>
  /\ gcov.g.uncovered = {2}
  /\ gcov.g.uncovered_exceptional = {1}
  /\ gcov.g.noncode = {}

\* the stack after the START and STOP markers of a line, taken in order:
\* START opens a region, STOP closes the innermost one if there is one
RECURSIVE RegionsAfter(_, _, _)
RegionsAfter(stack, markers, lineno) ==
  IF markers = <<>> THEN stack
  ELSE LET m == Head(markers)
           next == IF m[2] = "START" THEN Append(stack, Region(m[1], lineno))
                   ELSE IF m[2] = "STOP" /\ stack # <<>>
                     THEN SubSeq(stack, 1, Len(stack) - 1)
                   ELSE stack
       IN RegionsAfter(next, Tail(markers), lineno)

\* C18: a line with one or more LINE markers, alone, repeated or together
\* with START and STOP markers, gets one sentinel, pushed after all its
\* markers are scanned and popped at the end of the same line: the line is
\* excluded, the stack changes only by what the START and STOP markers of
\* the line do to the regions, and the next line is not excluded by it;
\* after every line and at the end of the report the stack holds only
\* (family, start-line) entries.
C18_LineSentinelLastsOneLine ==
  [][LET ln == gcov'.line
         stack == gcov.g.excluding
     IN /\ gcov'.pc \in {"lines", "done"} =>
             \A k \in 1..Len(gcov'.g.excluding) :
               gcov'.g.excluding[k].kind = "region"
        /\ (LineRead /\ HasLine(ln)) =>
             /\ gcov'.g.excluding = RegionsAfter(stack, ln.excl, ln.num)
             /\ ln.num \in gcov'.g.noncode
             /\ gcov'.g.uncovered = gcov.g.uncovered
        /\ (LineRead /\ gcov.line # NoLine /\ HasLine(gcov.line)
              /\ stack = <<>> /\ ln.excl = <<>> /\ ln.nseg = 3) =>
             ClassifiedAsCode(ln)]_vars

\* "-: 2: x; // GCOV_EXCL_START", then "#####: 2: x; // GCOV_EXCL_LINE
\* GCOV_EXCL_STOP": the STOP has closed the region without a warning, the
\* line is non-code all the same, and no sentinel is left
C18_Witness ==
  /\ gcov.pc = "lines"
  /\ gcov.n = 2
  /\ gcov.line = Text("#", FALSE, 0, 3, TRUE, 2, Marked,
                      <<<<"GCOV", "LINE">>, <<"GCOV", "STOP">>>>)
  /\ gcov.g.noncode = {2}
  /\ gcov.g.uncovered = {}
  /\ gcov.g.excluding = <<>>
  /\ gcov.g.stderr = <<>>

\* C19: at the end of the report one unterminated-region warning is written
\* for each START entry still on the stack, naming its family and its start
\* line, none when the stack is empty; the record of the file has been
\* created or updated from the lines parsed all the same.
C19_UnterminatedRegionsWarn ==
  [][(gcov.pc = "lines" /\ gcov'.pc = "done") =>
       LET stack == gcov.g.excluding
           rec == covdata'[gcov.fname]
       IN /\ NewWarnings = [k \in 1..Len(stack) |->
                              [kind |-> "unterminated",
                               start |-> stack[k].header,
                               start_line |-> stack[k].line]]
          /\ gcov.fname \in DOMAIN covdata'
          /\ (gcov.g.uncovered \cup gcov.g.uncovered_exceptional
                \cup DOMAIN gcov.g.covered) \subseteq rec.all_lines
          /\ DOMAIN gcov.g.covered \subseteq DOMAIN rec.covered
          /\ rec.noncode \subseteq gcov.g.noncode
          /\ gcov.fname \notin DOMAIN covdata =>
               /\ rec.uncovered = gcov.g.uncovered
               /\ rec.noncode = gcov.g.noncode]_vars

\* GCOV_EXCL_START and LCOV_EXCL_START on line 2, "#####: 1" inside, then the
\* end of the report: two warnings in stack order, and the record created
\* with lines 1 and 2 non-code
C19_Witness ==
  /\ gcov.pc = "done"
  /\ gcov.n = 3
  /\ gcov.g.stderr = <<[kind |-> "unterminated", start |-> "GCOV", start_line |-> 2],
                       [kind |-> "unterminated", start |-> "LCOV", start_line |-> 2]>>
  /\ "a.c" \in DOMAIN covdata
  /\ covdata["a.c"].noncode = {1, 2}
  /\ covdata["a.c"].all_lines = {}

\* branch, call and function lines
Annotation(ln) == ln.tmp \in {"branch", "call", "function"}

\* C21: the current line number changes only on a line whose second field
\* parses as an integer; a line without such a field (a branch, call or
\* function line) keeps the number of the most recent line that had one, a
\* branch is recorded under that number, and no annotation line makes the
\* parse fail.
C21_LineNumberInherited ==
  [][LET ln == gcov'.line
     IN (gcov.pc = "lines" /\ gcov' # gcov /\ gcov'.n = gcov.n + 1) =>
          /\ Annotation(ln) => gcov'.pc = "lines"
          /\ gcov'.pc = "lines" =>
               /\ gcov'.g.lineno =
                    IF ln.nseg > 1 /\ ln.numok THEN ln.num ELSE gcov.g.lineno
               /\ Annotation(ln) =>
                    /\ gcov'.g.lineno = gcov.g.lineno
                    /\ DOMAIN gcov'.g.branches \subseteq
                         (DOMAIN gcov.g.branches) \cup {gcov.g.lineno}
                    /\ (ln.tmp = "branch"
                          /\ ~gcov.options.exclude_unreachable_branches) =>
                         /\ gcov.g.lineno \in DOMAIN gcov'.g.branches
                         /\ ln.bidx \in DOMAIN gcov'.g.branches[gcov.g.lineno]]_vars

\* "#####: 2: x;", then "function ns::f called ...", then "branch 0 taken 1":
\* the branch is recorded under line 2
C21_Witness ==
  /\ gcov.pc = "lines"
  /\ gcov.n = 3
  /\ gcov.line = Branch(TRUE, 0, TRUE, 1)
  /\ gcov.g.lineno = 2
  /\ gcov.g.uncovered = {2}
  /\ gcov.g.branches = Put(EmptyMap, 2, Put(EmptyMap, 0, 1))
  /\ gcov.g.last_code_line = Stmt
  /\ gcov.g.stderr = <<>>

\* the text without its comments, as C reads them: "/*" opens a comment
\* that runs to the next "*/", "//" one that runs to the end of the line
RECURSIVE WithoutComments(_)
WithoutComments(s) ==
  IF s = <<>> THEN <<>>
  ELSE IF StartsWith(s, <<"/", "/">>) THEN <<>>
  ELSE IF StartsWith(s, <<"/", "*">>)
    THEN LET ends == {j \in 3..(Len(s) - 1) : s[j] = "*" /\ s[j + 1] = "/"}
         IN IF ends = {} THEN <<>>
            ELSE LET j == CHOOSE x \in ends : \A y \in ends : x <= y
                 IN WithoutComments(SubSeq(s, j + 2, Len(s)))
  ELSE <<Head(s)>> \o WithoutComments(Tail(s))

\* the code line holds nothing but braces once comments and whitespace are
\* gone
OnlyBraces(code) ==
  SelectSeq(WithoutComments(code), LAMBDA c : c \notin Whitespace(gcov.python))
    \in {<<>>, <<"{">>, <<"}">>, <<"{", "}">>}

\* C22 (as claimed): a branch line on the last code line, where that line was
\* excluded or its text without comments and whitespace is empty, "{", "}" or
\* "{}", adds nothing to branches when exclude_unreachable_branches is set,
\* and records branches[line][index] = count when it is not set.
C22_UnreachableBranchExcluded ==
  [][LET ln == gcov'.line
         g == gcov.g
     IN (LineRead /\ ln.tmp = "branch" /\ ln.bidxok /\ ln.bcntok
           /\ g.lineno = g.last_code_lineno
           /\ (g.last_code_line_excluded \/ OnlyBraces(g.last_code_line))) =>
          IF gcov.options.exclude_unreachable_branches
            THEN gcov'.g.branches = g.branches
            ELSE /\ g.lineno \in DOMAIN gcov'.g.branches
                 /\ ln.bidx \in DOMAIN gcov'.g.branches[g.lineno]
                 /\ gcov'.g.branches[g.lineno][ln.bidx] = ln.bcnt]_vars

Counted(ln) == ln.tmp \in {"#", "=", "digit"}

HasFlag(ln, flag) == \E k \in 1..Len(ln.excl) : ln.excl[k][2] = flag

\* the stack is not empty when the line is classified: the line is marked
\* LINE, or it carries no STOP and either a region is open or it opens one
ClassifiedInsideRegion(ln) ==
  \/ HasFlag(ln, "LINE")
  \/ /\ ~HasFlag(ln, "STOP")
     /\ (gcov.g.excluding # <<>> \/ HasFlag(ln, "START"))

\* C27: a line with the marker '#', '=' or a count that is classified while
\* the exclusion stack is not empty (inside a region, on the START line, on a
\* LINE-marked line) is added to noncode and to none of covered, uncovered
\* and uncovered_exceptional; the line whose STOP empties the stack is
\* classified as not excluded.
C27_ExcludedLinesAreNoncode ==
  [][LET ln == gcov'.line
     IN (LineRead /\ Counted(ln)) =>
          /\ ClassifiedInsideRegion(ln) =>
               /\ gcov'.g.noncode = gcov.g.noncode \cup {ln.num}
               /\ gcov'.g.covered = gcov.g.covered
               /\ gcov'.g.uncovered = gcov.g.uncovered
               /\ gcov'.g.uncovered_exceptional = gcov.g.uncovered_exceptional
          /\ (OnlyStop(ln) /\ Len(gcov.g.excluding) = 1) =>
               /\ gcov'.g.excluding = <<>>
               /\ ClassifiedAsCode(ln)]_vars

\* "#####: 1: x;" then "1: 2: x; // GCOV_EXCL_START": line 2 is non-code and
\* has no count, line 1 stays uncovered
C27_Witness ==
  /\ gcov.pc = "lines"
  /\ gcov.n = 2
  /\ gcov.line = Text("digit", TRUE, 1, 3, TRUE, 2, Marked, <<<<"GCOV", "START">>>>)
  /\ gcov.g.excluding = <<Region("GCOV", 2)>>
  /\ gcov.g.noncode = {2}
  /\ gcov.g.covered = EmptyMap
  /\ gcov.g.uncovered = {1}

\* C23 (as claimed): a candidate whose invocation reports "cannot open
\* (source|graph) file" contributes nothing to the mapping and the next
\* candidate in order is tried.
C23_CannotOpenContributesNothing ==
  (LeftDatafile /\ Len(Candidates(proc.file)) >= 2
     /\ Outcomes(proc.file)[1] = "cannot_open") =>
    /\ covdata = EmptyMap
    /\ Len(proc.invoked) >= 2
    /\ SubSeq(proc.invoked, 1, 2) = SubSeq(Candidates(proc.file), 1, 2)

\* C24 (as claimed): a non-zero exit code of the tool on a candidate ends
\* the artifact at once with a GcovError: nothing is parsed and no further
\* candidate is tried.
C24_NonZeroExitRaisesGcovError ==
  (LeftDatafile /\ Outcomes(proc.file)[1] = "failed") =>
    /\ proc.pc = "raised"
    /\ proc.error = "GcovError"
    /\ proc.invoked = <<Candidates(proc.file)[1]>>
    /\ covdata = EmptyMap

(***************************************************************************)
(* Specification SpecRunFair: process_files as a sequential program: a run *)
(* that can take a step takes one.                                         *)
(***************************************************************************)
SpecRunFair == InitRun /\ [][NextRun]_vars /\ WF_vars(NextRun)

\* the loop of process_datafile on the current artifact has ended in
\* success or exhaustion (process_datafile returned) or in an invocation
\* error, the tool having run in some of the candidates, in order
LoopEnded ==
  /\ LeftDatafile
  /\ proc.pc \in {"files", "returned"}
       \/ (proc.pc = "raised" /\ proc.error = "GcovError")
  /\ proc.invoked # <<>>
  /\ IsPrefix(proc.invoked, Candidates(proc.file))

\* C28 (as claimed): process_datafile terminates for every artifact: once
\* an artifact is to be processed, the loop over its candidates, which run
\* from its directory to the root, ends in success, in exhaustion or in an
\* invocation error, no candidate being invoked twice.
C28_DatafileTerminates ==
  (proc.pc = "files" /\ proc.file < Len(proc.datafiles)) ~> LoopEnded

(***************************************************************************)
(* Specification SpecFind: a call of find_gcov_files on the stdout of one  *)
(* tool invocation.  A line of stdout is [creating |-> TRUE, fname |->     *)
(* name] when output_re finds "creating '<name>'" in it and [creating |->  *)
(* FALSE] otherwise.  A pattern is the set of names it matches.            *)
(***************************************************************************)
MaxStdout == 3

GcovNames == {"a.gcov", "b.gcov", "c.gcov"}

\* options.gcov_filter matches a.gcov and c.gcov; the one pattern of
\* options.gcov_exclude matches c.gcov
GcovFilter == {"a.gcov", "c.gcov"}

GcovExclude == <<{"c.gcov"}>>

StdoutLines ==
  {[creating |-> TRUE, fname |-> f] : f \in GcovNames}
    \cup {[creating |-> FALSE]}

NoFiles == [active |-> <<>>, filter |-> <<>>, exclude |-> <<>>]

\* lines 377-400: the loop over gcov_stdout.splitlines()
RECURSIVE find_gcov_files(_, _, _, _)
find_gcov_files(gcov_filter, gcov_exclude, gcov_stdout, verbose) ==
  IF gcov_stdout = <<>> THEN NoFiles
  ELSE
    LET n == Len(gcov_stdout)
        line == gcov_stdout[n]
        gcov_files == find_gcov_files(gcov_filter, gcov_exclude,
                                      SubSeq(gcov_stdout, 1, n - 1), verbose)
        exclude == \E i \in 1..Len(gcov_exclude) : line.fname \in gcov_exclude[i]
    IN IF ~line.creating THEN gcov_files
       ELSE IF line.fname \notin gcov_filter
         THEN [gcov_files EXCEPT !.filter = Append(@, line.fname)]
       ELSE IF ~exclude
         THEN [gcov_files EXCEPT !.active = Append(@, line.fname)]
       ELSE IF verbose
         THEN [gcov_files EXCEPT !.exclude = Append(@, line.fname)]
       ELSE gcov_files

Elems(q) == {q[k] : k \in 1..Len(q)}

\* the names the tool announced, which are the files it created
Announced(gcov_stdout) ==
  {gcov_stdout[k].fname : k \in {j \in 1..Len(gcov_stdout) : gcov_stdout[j].creating}}

InitFind ==
  /\ covdata = EmptyMap
  /\ gcov = [pc |-> "off"]
  /\ fold = IdleFold
  /\ printed = NotPrinting
  /\ \E gcov_stdout \in UNION {[1..n -> StdoutLines] : n \in 0..MaxStdout},
        verbose \in BOOLEAN :
       proc = [pc |-> "called", gcov_stdout |-> gcov_stdout,
               verbose |-> verbose, gcov_files |-> NoFiles]

\* lines 375-402: find_gcov_files returns the three groups
FindFiles ==
  /\ proc.pc = "called"
  /\ proc' = [proc EXCEPT !.pc = "found",
                          !.gcov_files = find_gcov_files(GcovFilter, GcovExclude,
                                                         proc.gcov_stdout,
                                                         proc.verbose)]
  /\ UNCHANGED <<covdata, gcov, fold, printed>>

NextFind == FindFiles

SpecFind == InitFind /\ [][NextFind]_vars

\* C25 (as claimed): whatever verbose is, every announced file name is in
\* exactly one of the groups active, filter and exclude.
C25_EveryCreatedFileClassified ==
  proc.pc = "found" =>
    \A f \in Announced(proc.gcov_stdout) :
      Cardinality({grp \in {"active", "filter", "exclude"} :
                     f \in Elems(proc.gcov_files[grp])}) = 1

(***************************************************************************)
(* Specification SpecPair: two reports, each naming its source file in the *)
(* header, parsed one after the other by process_gcov_data into one        *)
(* mapping.                                                                *)
(***************************************************************************)
MaxPairLen == 2

\* "#####: n", "1: n" for both lines, and "2: 1"
PairLines ==
  {Text("#", FALSE, 0, 3, TRUE, n, Stmt, <<>>) : n \in Lines}
    \cup {Text("digit", TRUE, 1, 3, TRUE, n, Stmt, <<>>) : n \in Lines}
    \cup {Text("digit", TRUE, 2, 3, TRUE, 1, Stmt, <<>>)}

PairReports ==
  {[hdr |-> GoodHeader, fname |-> f, text |-> t] :
     f \in {"a.c", "b.c"},
     t \in UNION {[1..n -> PairLines] : n \in 0..MaxPairLen}}

InitPair ==
  /\ covdata = EmptyMap
  /\ proc = IdleProc
  /\ fold = IdleFold
  /\ printed = NotPrinting
  /\ \E first \in PairReports, second \in PairReports, python \in Interpreters :
       gcov = [pc |-> "pair", reports |-> <<first, second>>, parsed |-> 0,
               result |-> "none", python |-> python]

\* lines 165-372: process_gcov_data on the next report
ParseNext ==
  /\ gcov.pc = "pair"
  /\ gcov.parsed < Len(gcov.reports)
  /\ LET r == gcov.reports[gcov.parsed + 1]
         g == ParseLines(ParserLocals, r.text, DefaultOptions, gcov.python)
     IN IF HeaderCheck(r.hdr) # "none"
          THEN /\ gcov' = [gcov EXCEPT !.pc = "raised",
                                       !.result = HeaderCheck(r.hdr)]
               /\ covdata' = covdata
          ELSE IF g.raised # "none"
            THEN /\ gcov' = [gcov EXCEPT !.pc = "raised", !.result = g.raised]
                 /\ covdata' = covdata
            ELSE /\ gcov' = [gcov EXCEPT !.parsed = @ + 1, !.result = "ok"]
                 /\ covdata' = Upsert(covdata, r.fname, g)
  /\ UNCHANGED <<proc, fold, printed>>

NextPair == ParseNext

SpecPair == InitPair /\ [][NextPair]_vars

\* the report marks line l uncovered: a '#####' line and no count for l
MarksUncovered(r, l) ==
  /\ \E k \in 1..Len(r.text) : r.text[k].tmp = "#" /\ r.text[k].num = l
  /\ \A k \in 1..Len(r.text) : ~(r.text[k].tmp = "digit" /\ r.text[k].num = l)

\* the report marks line l covered with count c
MarksCovered(r, l, c) ==
  /\ \E k \in 1..Len(r.text) : r.text[k].tmp = "digit" /\ r.text[k].num = l
  /\ \A k \in 1..Len(r.text) :
       (r.text[k].tmp = "digit" /\ r.text[k].num = l) => r.text[k].count = c

\* C26: when one report of a path marks a line uncovered and another report
\* of the same path marks it covered with count N, then after both are
\* parsed into the same mapping, in either order, the mapping has one record
\* for the path, with covered[line] = N and the line not in uncovered.
C26_UncoveredThenCovered ==
  (gcov.pc = "pair" /\ gcov.parsed = 2) =>
    \A i \in {1, 2}, l \in Lines, c \in {1, 2} :
      LET u == gcov.reports[i]
          v == gcov.reports[3 - i]
      IN (u.fname = v.fname /\ MarksUncovered(u, l) /\ MarksCovered(v, l, c)) =>
           /\ DOMAIN covdata = {u.fname}
           /\ l \in DOMAIN covdata[u.fname].covered
           /\ covdata[u.fname].covered[l] = c
           /\ l \notin covdata[u.fname].uncovered

\* the first report gives line 1 the count 2, the second marks line 1
\* uncovered: the record keeps the count and line 1 is not uncovered
C26_Witness ==
  /\ gcov.pc = "pair"
  /\ gcov.parsed = 2
  /\ gcov.reports[1].fname = gcov.reports[2].fname
  /\ MarksCovered(gcov.reports[1], 1, 2)
  /\ MarksUncovered(gcov.reports[2], 1)
  /\ covdata[gcov.reports[1].fname].covered[1] = 2
  /\ 1 \notin covdata[gcov.reports[1].fname].uncovered

====
